---- MODULE Spec2Model ----
(***************************************************************************)
(* LoreSmith API: the story analysis endpoint (StoryViewSet.analyze), the  *)
(* AI service behind it (LoreAIService.analyze_text), the daily token      *)
(* ledger kept in the cache and the per-user throttle in front of it; and  *)
(* the standard routes (list, create, retrieve, update, destroy) of the    *)
(* five viewsets with their permission classes.                            *)
(*                                                                         *)
(* Requests run concurrently, one per slot; every access to the shared     *)
(* cache is a step of its own, everything local to a request is folded     *)
(* into the step that precedes the next shared access.                     *)
(***************************************************************************)
EXTENDS Integers, Sequences, FiniteSets, TLC

\* ---------------------------------------------------------------- bounds
NumSlots == 2          \* requests in flight at once
MaxRequests == 2       \* requests started in one behaviour
MaxSeqRequests == 3    \* requests started in one sequential behaviour
NumUsers == 2          \* registered users
NumStories == 1        \* stories in the database
MaxNow == 1            \* last clock tick
TicksPerDay == 1       \* clock ticks in one calendar day
ThrottleDuration == 1  \* the throttle window, in clock ticks
MaxTokens == 2         \* largest usage.total_tokens of an upstream response
MaxBudget == 2         \* largest LORESMITH_DAILY_TOKEN_BUDGET
MaxInputChars == 3     \* LORESMITH_MAX_INPUT_CHARS
MaxCreates == 1
MaxStories == 2
MaxWorldRows == 2        \* rows created through the API in one behaviour

\* ------------------------------------------------------- program constants
ThrottleNumRequests == 2   \* the "2/min" rate of the throttling test
SnippetLen == 200          \* _mock_response's snippet length

\* ------------------------------------------------------------- optionals
\* Python's None is the empty sequence, a present value x is <<x>>.
None == << >>
Some(x) == <<x>>

Slots == 1..NumSlots
Users == {Some(u) : u \in 1..NumUsers}
Anonymous == None
Days == 0..(MaxNow \div TicksPerDay)

VARIABLES
    settings,        \* django settings the service reads
    users,           \* the accounts that exist
    db,              \* the tables: kind -> id -> row
    next_pk,         \* per table, the id the next row gets
    last,            \* the last request to a viewset's standard routes, as answered
    cache_tokens,    \* cache entries loresmith_ai_tokens_<day>: day -> tokens, None with no entry
    cache_throttle,  \* cache entries throttle_ai_<user pk>: user -> history
    now,             \* the clock
    req,             \* the requests in flight: slot -> request frame
    started,         \* requests started so far
    tokens_reported, \* history: per day, sum of the totals handed to add_daily_tokens_used
    admitted         \* history: per user, the times at which the throttle admitted a request

vars == <<settings, users, db, next_pk, last, cache_tokens, cache_throttle, now,
          req, started, tokens_reported, admitted>>

\* The five resources of core/urls.py.
Kinds == {"location", "faction", "item", "character", "story"}

\* the Story table: id -> row
stories == db["story"]

\* ------------------------------------------------------------------ text
NL == "\n"
Whitespace == {" ", NL}

SetMin(S) == CHOOSE x \in S : \A y \in S : x <= y
SetMax(S) == CHOOSE x \in S : \A y \in S : x >= y

\* str.strip(): drop leading and trailing whitespace
Strip(s) ==
    LET keep == {i \in 1..Len(s) : s[i] \notin Whitespace}
    IN  IF keep = {} THEN << >> ELSE SubSeq(s, SetMin(keep), SetMax(keep))

RECURSIVE Join(_)
\* "\n\n".join(ps)
Join(ps) ==
    IF Len(ps) = 0 THEN << >>
    ELSE IF Len(ps) = 1 THEN ps[1]
    ELSE ps[1] \o <<NL, NL>> \o Join(Tail(ps))

\* the parts joined without the blank ones dropped
AllParts(parts) == parts

\* the generator of analyze: p for p in parts if p and p.strip()
NonBlankParts(parts) == SelectSeq(parts, LAMBDA p : Len(p) > 0 /\ Len(Strip(p)) > 0)

\* analyze: the text built from title, summary and body
ViewText(story) == Join(NonBlankParts(<<story.title, story.summary, story.body>>))

\* django.utils.text.slugify: lower case, a hyphen for whitespace inside
LowerCase(c) == IF c = "A" THEN "a" ELSE IF c = "B" THEN "b" ELSE c
Slugify(s) ==
    LET t == Strip(s)
    IN  [i \in 1..Len(t) |-> IF t[i] \in Whitespace THEN "-" ELSE LowerCase(t[i])]

\* the character limit cut one character late
TruncateOneLate(text, max_input_chars) ==
    IF Len(text) > max_input_chars THEN SubSeq(text, 1, max_input_chars + 1) ELSE text

\* analyze_text: enforce the character limit
Truncate(text, max_input_chars) ==
    IF Len(text) > max_input_chars THEN SubSeq(text, 1, max_input_chars) ELSE text


\* ------------------------------------------------------------ the service
\* _get_config(): the LoreAIConfig read from the settings
get_config ==
    [enabled |-> settings.LORESMITH_AI_ENABLED,
     model |-> "gpt-4.1-mini",
     max_input_chars |-> settings.LORESMITH_MAX_INPUT_CHARS,
     daily_token_budget |-> settings.LORESMITH_DAILY_TOKEN_BUDGET]

\* LoreAIService.__init__: self._has_key = bool(api_key)
has_key == settings.OPENAI_API_KEY

\* the cache key that leaves the date out
TodayNoDate == SetMin(Days)

\* _daily_token_key(): the cache key of the current date
Today == now \div TicksPerDay

\* cache.get(key, default)
cache_get(cache, key, default) == IF cache[key] = None THEN default ELSE cache[key][1]

\* get_daily_tokens_used()
get_daily_tokens_used == cache_get(cache_tokens, Today, 0)

\* the mock-mode decision taken only when both the flag and the key are off
UseMockWhenBothOff(config, haskey) == ~config.enabled /\ ~haskey

\* analyze_text: the mock-mode decision
UseMock(config, haskey) == ~config.enabled \/ ~haskey

\* the budget test with > for >=
BudgetExceededStrict(used, budget) == used > budget

\* _check_daily_budget: the budget test on the value read
BudgetExceeded(used, budget) == used >= budget

\* _mock_response
mock_response(text) ==
    [summary |-> "AI is not available. This is a placeholder summary.",
     themes |-> <<"mock-theme">>,
     tone |-> "neutral",
     strengths |-> <<"Mock analysis enabled">>,
     weaknesses |-> <<"This feedback is not based on the actual content.">>,
     suggestions |-> <<"Configure OPENAI_API_KEY and LORESMITH_AI_ENABLED=true">>,
     meta |-> [ai_mode |-> "mock", model |-> None, input_tokens |-> Some(0),
               output_tokens |-> Some(0), total_tokens |-> Some(0)],
     snippet |-> IF Len(text) > SnippetLen
                 THEN SubSeq(text, 1, SnippetLen) \o <<".", ".", ".">>
                 ELSE text]

\* The keys the prompt asks the model for.
StringKeys == {"summary", "tone"}
ListKeys == {"themes", "strengths", "weaknesses", "suggestions"}
ParsedKeys == StringKeys \cup ListKeys

\* What the upstream call can come back with.  A response carries usage
\* (or none) and a message whose parsed output is a dict holding some of the
\* keys, or cannot be read at all (no parsed attribute, no choices, None).
Usages ==
    {None} \cup {Some([prompt_tokens |-> 1, completion_tokens |-> n - 1,
                       total_tokens |-> n]) : n \in 1..MaxTokens}
ParsedOutputs ==
    {[readable |-> FALSE, keys |-> {}]}
    \cup {[readable |-> TRUE, keys |-> K] :
             K \in {ParsedKeys, ParsedKeys \ {"themes", "tone"}, {}}}
Responses == [usage : Usages, parsed : ParsedOutputs]

\* getattr(usage, name, None)
UsageField(usage, name) == IF usage = None THEN None ELSE Some(usage[1][name])

\* parsed.get(key, "").strip() and parsed.get(key, []): the model's value
\* under a key it returned is " v " (a string) or <<"v">> (a list).
ParsedString(parsed, key) ==
    IF key \in parsed.keys THEN Strip(<<" ", "v", " ">>) ELSE << >>
ParsedList(parsed, key) ==
    IF key \in parsed.keys THEN <<"v">> ELSE << >>

\* analyze_text, lines 259-279: the result built from the response
live_result(config, response) ==
    [summary |-> ParsedString(response.parsed, "summary"),
     themes |-> ParsedList(response.parsed, "themes"),
     tone |-> ParsedString(response.parsed, "tone"),
     strengths |-> ParsedList(response.parsed, "strengths"),
     weaknesses |-> ParsedList(response.parsed, "weaknesses"),
     suggestions |-> ParsedList(response.parsed, "suggestions"),
     meta |-> [ai_mode |-> "live", model |-> Some(config.model),
               input_tokens |-> UsageField(response.usage, "prompt_tokens"),
               output_tokens |-> UsageField(response.usage, "completion_tokens"),
               total_tokens |-> UsageField(response.usage, "total_tokens")]]

\* ---------------------------------------------------------------- the view
\* IsAuthenticatedOrReadOnly.has_permission for the POST of analyze
IsAuthenticated(user) == user # Anonymous

\* the object permission granted to every authenticated caller
has_object_permission_authenticated(method, obj, user) == IsAuthenticated(user)

\* the object permission granted to every caller
has_object_permission_any(method, obj, user) == TRUE

\* the object permission that treats a row without owner as everyone's
has_object_permission_unowned(method, obj, user) ==
    method \in {"GET", "HEAD", "OPTIONS"} \/ obj.created_by \in {None, user}

\* IsOwnerOrReadOnly.has_object_permission
has_object_permission(method, obj, user) ==
    IF method \in {"GET", "HEAD", "OPTIONS"} THEN TRUE ELSE obj.created_by = user

\* analyze: the status an exception of analyze_text ends the request with.
\* An exception that is neither kind leaves the view unhandled (500).
ErrorStatus(kind) ==
    IF kind = "DailyBudgetExceeded" THEN 429
    ELSE IF kind = "AiServiceError" THEN 503
    ELSE 500

\* get_cache_key giving no key to anyone
get_cache_key_never(user) == None

\* AIUserThrottle.get_cache_key: no key for a caller who is not authenticated
get_cache_key(user) == IF user = Anonymous THEN None ELSE user

RECURSIVE DropExpired(_, _)
\* SimpleRateThrottle.allow_request: pop the entries that left the window
\* off the end of the history (the history is newest first)
DropExpired(history, t) ==
    IF Len(history) > 0 /\ history[Len(history)] <= t - ThrottleDuration
    THEN DropExpired(SubSeq(history, 1, Len(history) - 1), t)
    ELSE history

\* SimpleRateThrottle.allow_request: the decision on the history read
ThrottleAllows(history) == Len(history) < ThrottleNumRequests


\* ------------------------------------------------------------------ state
\* The rows a story can hold: nothing but blanks, a body of exactly the
\* character limit, and a text over the limit that starts with a blank.
StoryRows ==
    {[created_by |-> Some(1), title |-> << >>, summary |-> <<" ">>, body |-> << >>,
      slug |-> Slugify(<< >>)],
     [created_by |-> Some(1), title |-> << >>, summary |-> <<" ">>,
      body |-> <<"b", "c", "d">>, slug |-> Slugify(<< >>)],
     [created_by |-> Some(1), title |-> <<" ", "a">>, summary |-> <<" ">>,
      body |-> <<"b", "c", "d">>, slug |-> Slugify(<<" ", "a">>)]}

\* The throttle histories a behaviour starts from: no request yet, or one
\* admitted at time 0 and since answered (a request for a story that does
\* not exist changes nothing else).  Only the owner of the stories has one.
PriorHistories == {<< >>, <<0>>}

Settings ==
    [LORESMITH_AI_ENABLED : BOOLEAN,
     OPENAI_API_KEY : BOOLEAN,
     LORESMITH_MAX_INPUT_CHARS : {MaxInputChars},
     LORESMITH_DAILY_TOKEN_BUDGET : 0..MaxBudget]

\* No request to the standard routes yet.
NoRequest ==
    [method |-> "", kind |-> "", pk |-> 0, user |-> Anonymous,
     data |-> [name |-> << >>, created_by |-> None, ref |-> None], status |-> 0]

\* A request frame before the request starts.
Fresh ==
    [pc |-> "idle", user |-> Anonymous, pk |-> 0, status |-> 0, detail |-> "",
     throttled |-> FALSE, history |-> << >>, t |-> 0,
     raw |-> None, text |-> None, used |-> None, key |-> 0, current |-> 0,
     response |-> None, upstream_error |-> None, analysis |-> None,
     ledger_reads |-> 0, ledger_writes |-> 0, upstream_calls |-> 0,
     service_made |-> FALSE]

Init ==
    /\ settings \in Settings
    /\ users = Users
    /\ \E fixture \in [1..NumStories -> StoryRows] :
          db = [k \in Kinds |-> IF k = "story" THEN fixture ELSE << >>]
    /\ next_pk = [k \in Kinds |-> IF k = "story" THEN NumStories + 1 ELSE 1]
    /\ last = NoRequest
    /\ cache_tokens = [d \in Days |-> None]
    /\ \E h \in PriorHistories :
          cache_throttle = [u \in Users |-> IF u = Some(1) THEN h ELSE << >>]
    /\ now = 0
    /\ req = [r \in Slots |-> Fresh]
    /\ started = 0
    /\ tokens_reported = [d \in Days |-> 0]
    /\ admitted = cache_throttle

\* The response that ends a request.
Respond(q, status, detail) ==
    [q EXCEPT !.pc = "done", !.status = status, !.detail = detail,
              !.history = << >>, !.t = 0, !.key = 0, !.current = 0]

\* ---------------------------------------------------------------- actions
\* A caller posts /stories/<pk>/analyze.
StartRequest(r) ==
    /\ \E u \in users \cup {Anonymous}, pk \in 1..(NumStories + 1) :
          req' = [req EXCEPT ![r] = [Fresh EXCEPT !.pc = "initial", !.user = u, !.pk = pk]]
    /\ started' = started + 1
    /\ UNCHANGED <<settings, users, db, next_pk, last, cache_tokens, cache_throttle, now,
                   tokens_reported, admitted>>

\* Requests arrive while others are in flight; the lowest free slot takes the
\* next one.
Start(r) ==
    /\ req[r].pc = "idle"
    /\ \A r2 \in 1..(r - 1) : req[r2].pc # "idle"
    /\ started < MaxRequests
    /\ StartRequest(r)

\* Requests arrive one after the other: the next one only after the last
\* one was answered.
SeqStart ==
    /\ \A r \in Slots : req[r].pc = "idle"
    /\ started < MaxSeqRequests
    /\ StartRequest(1)

\* APIView.initial for the analyze action: the permission check, then the
\* throttle's allow_request up to its decision on the history it read.
\* the throttle's refusal noted but the handler run all the same
CheckThrottlesNotEnforced(q) ==
    LET key == get_cache_key(q.user)
        history == DropExpired(cache_throttle[key], now)
    IN  IF key = None THEN [q EXCEPT !.pc = "handler"]
        ELSE IF Len(history) < ThrottleNumRequests
        THEN [q EXCEPT !.pc = "throttle_success", !.history = history, !.t = now]
        ELSE [q EXCEPT !.pc = "handler", !.throttled = TRUE]

\* the throttle's admission not written to the history
CheckThrottlesNoRecord(q) ==
    LET key == get_cache_key(q.user)
        history == DropExpired(cache_throttle[key], now)
    IN  IF key = None THEN [q EXCEPT !.pc = "handler"]
        ELSE IF ThrottleAllows(history)
        THEN [q EXCEPT !.pc = "handler"]
        ELSE [Respond(q, 429, "Request was throttled.") EXCEPT !.throttled = TRUE]

CheckThrottles(q) ==
    LET key == get_cache_key(q.user)
        history == DropExpired(cache_throttle[key], now)
    IN  IF key = None THEN [q EXCEPT !.pc = "handler"]
        ELSE IF ThrottleAllows(history)
        THEN [q EXCEPT !.pc = "throttle_success", !.history = history, !.t = now]
        ELSE [Respond(q, 429, "Request was throttled.") EXCEPT !.throttled = TRUE]

Initial(r) ==
    /\ req[r].pc = "initial"
    /\ IF ~IsAuthenticated(req[r].user)
       THEN /\ \E st \in {401, 403} :
                 req' = [req EXCEPT ![r] =
                            Respond(@, st, "Authentication credentials were not provided.")]
            /\ UNCHANGED admitted
       ELSE /\ req' = [req EXCEPT ![r] = CheckThrottles(@)]
            /\ admitted' =
                 IF req'[r].throttled THEN admitted
                 ELSE [admitted EXCEPT ![req[r].user] = Append(@, now)]
    /\ UNCHANGED <<settings, users, db, next_pk, last, cache_tokens, cache_throttle, now, started,
                   tokens_reported>>

\* SimpleRateThrottle.throttle_success: insert the request's time, write the
\* history back
ThrottleSuccess(r) ==
    /\ req[r].pc = "throttle_success"
    /\ cache_throttle' =
          [cache_throttle EXCEPT ![req[r].user] = <<req[r].t>> \o req[r].history]
    /\ req' = [req EXCEPT ![r].pc = "handler"]
    /\ UNCHANGED <<settings, users, db, next_pk, last, cache_tokens, now, started, tokens_reported,
                   admitted>>


\* An exception of analyze_text, as the view answers it.
Raise(q, kind, detail) == Respond(q, ErrorStatus(kind), detail)

\* analyze_text with the budget checked ahead of the mock fallback
AnalyzeTextBudgetFirst(q, raw) ==
    LET config == get_config
        text == Strip(raw)
        cut == Truncate(text, config.max_input_chars)
    IN  IF text = << >>
        THEN Raise([q EXCEPT !.raw = Some(raw)], "AiServiceError",
                   "No content provided for analysis.")
        ELSE IF BudgetExceeded(get_daily_tokens_used, config.daily_token_budget)
        THEN Raise([q EXCEPT !.raw = Some(raw), !.text = Some(cut)],
                   "DailyBudgetExceeded",
                   "AI daily token budget exceeded. Try again tomorrow.")
        ELSE IF UseMock(config, has_key)
        THEN [Respond(q, 200, "") EXCEPT !.raw = Some(raw), !.text = Some(cut),
                                         !.analysis = Some(mock_response(cut))]
        ELSE [q EXCEPT !.pc = "check_budget", !.raw = Some(raw), !.text = Some(cut)]

\* analyze_text, lines 201-214: strip, the empty check, the character limit
\* and the mock fallback; the live path goes on to the budget check.
AnalyzeText(q, raw) ==
    LET config == get_config
        text == Strip(raw)
        cut == Truncate(text, config.max_input_chars)
    IN  IF text = << >>
        THEN Raise([q EXCEPT !.raw = Some(raw)], "AiServiceError",
                   "No content provided for analysis.")
        ELSE IF UseMock(config, has_key)
        THEN [Respond(q, 200, "") EXCEPT !.raw = Some(raw), !.text = Some(cut),
                                         !.analysis = Some(mock_response(cut))]
        ELSE [q EXCEPT !.pc = "check_budget", !.raw = Some(raw), !.text = Some(cut)]

\* analyze, lines 73-95: get_object with its object permission check, the
\* text built from the story, the service made and analyze_text entered.
Analyze(q) ==
    IF q.pk \notin DOMAIN stories
    THEN Respond(q, 404, "Not found.")
    ELSE IF ~has_object_permission("POST", stories[q.pk], q.user)
    THEN Respond(q, 403, "You do not have permission to perform this action.")
    ELSE LET text == ViewText(stories[q.pk])
         IN  IF text = << >>
             THEN Respond(q, 400, "Nothing to analyze (title/summary/body are empty).")
             ELSE AnalyzeText([q EXCEPT !.service_made = TRUE], text)

Handler(r) ==
    /\ req[r].pc = "handler"
    /\ req' = [req EXCEPT ![r] = Analyze(@)]
    /\ UNCHANGED <<settings, users, db, next_pk, last, cache_tokens, cache_throttle, now, started,
                   tokens_reported, admitted>>

\* _check_daily_budget (with get_daily_tokens_used), then the client check
CheckDailyBudget(q) ==
    LET used == get_daily_tokens_used
        read == [q EXCEPT !.ledger_reads = @ + 1, !.used = Some(used)]
    IN  IF BudgetExceeded(used, get_config.daily_token_budget)
        THEN Raise(read, "DailyBudgetExceeded",
                   "AI daily token budget exceeded. Try again tomorrow.")
        ELSE IF ~has_key
        THEN Raise(read, "AiServiceError", "AI client is not initialized.")
        ELSE [read EXCEPT !.pc = "upstream"]

CheckBudget(r) ==
    /\ req[r].pc = "check_budget"
    /\ req' = [req EXCEPT ![r] = CheckDailyBudget(@)]
    /\ UNCHANGED <<settings, users, db, next_pk, last, cache_tokens, cache_throttle, now, started,
                   tokens_reported, admitted>>

\* the parsed output read with parsed[key]: a key left out is a KeyError
ParseResponseStrict(q) ==
    IF ~q.response[1].parsed.readable
    THEN Raise(q, "AttributeError", "Internal Server Error")
    ELSE IF q.response[1].parsed.keys # ParsedKeys
    THEN Raise(q, "KeyError", "Internal Server Error")
    ELSE [Respond(q, 200, "") EXCEPT
             !.analysis = Some(live_result(get_config, q.response[1]))]

\* analyze_text, lines 259-279: read the parsed output and build the result.
\* An output that cannot be read raises an error that is no AiServiceError.
ParseResponse(q) ==
    IF ~q.response[1].parsed.readable
    THEN Raise(q, "AttributeError", "Internal Server Error")
    ELSE [Respond(q, 200, "") EXCEPT
             !.analysis = Some(live_result(get_config, q.response[1]))]

\* The errors the upstream client raises, all of them OpenAIError: the text
\* of each is its own.
UpstreamErrors == {"Connection error.", "Rate limit reached."}

\* the text of the upstream error handed on to the caller
ServiceErrorMessageEcho(exc) == exc

\* analyze_text, line 238: the text of the AiServiceError raised in place of
\* the upstream error
ServiceErrorMessage(exc) == "AI analysis failed."

\* the failed upstream call charged one token to the ledger
UpstreamFailsCharges(r) ==
    /\ req[r].pc = "upstream"
    /\ \E exc \in UpstreamErrors :
          req' = [req EXCEPT ![r] =
                     Raise([@ EXCEPT !.upstream_calls = @ + 1,
                                     !.upstream_error = Some(exc)],
                           "AiServiceError", ServiceErrorMessage(exc))]
    /\ cache_tokens' = [cache_tokens EXCEPT ![Today] = Some(get_daily_tokens_used + 1)]
    /\ UNCHANGED <<settings, users, db, next_pk, last, cache_throttle, now, started,
                   tokens_reported, admitted>>

\* the upstream call tried once more after its first failure
UpstreamFailsRetry(r) ==
    /\ req[r].pc = "upstream"
    /\ \E exc \in UpstreamErrors :
          req' = [req EXCEPT ![r] =
                     IF @.upstream_calls = 0
                     THEN [@ EXCEPT !.upstream_calls = @ + 1]
                     ELSE Raise([@ EXCEPT !.upstream_calls = @ + 1,
                                          !.upstream_error = Some(exc)],
                                "AiServiceError", ServiceErrorMessage(exc))]
    /\ UNCHANGED <<settings, users, db, next_pk, last, cache_tokens, cache_throttle, now, started,
                   tokens_reported, admitted>>

\* analyze_text, lines 225-238: the upstream call raises OpenAIError, which
\* is logged and replaced by an AiServiceError
UpstreamFails(r) ==
    /\ req[r].pc = "upstream"
    /\ \E exc \in UpstreamErrors :
          req' = [req EXCEPT ![r] =
                     Raise([@ EXCEPT !.upstream_calls = @ + 1,
                                     !.upstream_error = Some(exc)],
                           "AiServiceError", ServiceErrorMessage(exc))]
    /\ UNCHANGED <<settings, users, db, next_pk, last, cache_tokens, cache_throttle, now, started,
                   tokens_reported, admitted>>

\* the parsed output read ahead of the ledger
AfterResponseParseFirst(q) ==
    IF ~q.response[1].parsed.readable
    THEN Raise(q, "AttributeError", "Internal Server Error")
    ELSE IF UsageField(q.response[1].usage, "total_tokens") = None
    THEN ParseResponse(q)
    ELSE [q EXCEPT !.pc = "add_get"]

\* analyze_text, lines 225-246: the upstream call returns a response; with no
\* total in its usage the ledger is skipped
AfterResponse(q) ==
    IF UsageField(q.response[1].usage, "total_tokens") = None
    THEN ParseResponse(q)
    ELSE [q EXCEPT !.pc = "add_get"]

UpstreamResponds(r) ==
    /\ req[r].pc = "upstream"
    /\ \E response \in Responses :
          req' = [req EXCEPT ![r] =
                     AfterResponse([@ EXCEPT !.upstream_calls = @ + 1,
                                             !.response = Some(response)])]
    /\ UNCHANGED <<settings, users, db, next_pk, last, cache_tokens, cache_throttle, now, started,
                   tokens_reported, admitted>>

\* add_daily_tokens_used, lines 70-71: the key of today and the read
AddGet(r) ==
    /\ req[r].pc = "add_get"
    /\ req' = [req EXCEPT ![r].pc = "add_set", ![r].key = Today,
                          ![r].current = get_daily_tokens_used,
                          ![r].ledger_reads = @ + 1]
    /\ tokens_reported' =
          [tokens_reported EXCEPT ![now \div TicksPerDay] =
              @ + req[r].response[1].usage[1].total_tokens]
    /\ UNCHANGED <<settings, users, db, next_pk, last, cache_tokens, cache_throttle, now, started,
                   admitted>>

\* the write that stores the call's total in place of the sum
AddSetOverwrites(r) ==
    /\ req[r].pc = "add_set"
    /\ cache_tokens' =
          [cache_tokens EXCEPT ![req[r].key] =
              Some(req[r].response[1].usage[1].total_tokens)]
    /\ req' = [req EXCEPT ![r] =
                  ParseResponse([@ EXCEPT !.ledger_writes = @ + 1,
                                          !.ledger_reads = @ + 1])]
    /\ UNCHANGED <<settings, users, db, next_pk, last, cache_throttle, now, started, tokens_reported,
                   admitted>>

\* add_daily_tokens_used, line 73: the write; then the log line's read and
\* the parsing of the response
AddSet(r) ==
    /\ req[r].pc = "add_set"
    /\ cache_tokens' =
          [cache_tokens EXCEPT ![req[r].key] =
              Some(req[r].current + req[r].response[1].usage[1].total_tokens)]
    /\ req' = [req EXCEPT ![r] =
                  ParseResponse([@ EXCEPT !.ledger_writes = @ + 1,
                                          !.ledger_reads = @ + 1])]
    /\ UNCHANGED <<settings, users, db, next_pk, last, cache_throttle, now, started, tokens_reported,
                   admitted>>

\* The response is sent; the slot takes the next request.
Finish(r) ==
    /\ req[r].pc = "done"
    /\ req' = [req EXCEPT ![r] = Fresh]
    /\ UNCHANGED <<settings, users, db, next_pk, last, cache_tokens, cache_throttle, now, started,
                   tokens_reported, admitted>>

\* Time passes.
Tick ==
    /\ now < MaxNow
    /\ now' = now + 1
    /\ UNCHANGED <<settings, users, db, next_pk, last, cache_tokens, cache_throttle, req, started,
                   tokens_reported, admitted>>

Next ==
    \/ \E r \in Slots : Start(r)
    \/ \E r \in Slots : Initial(r)
    \/ \E r \in Slots : ThrottleSuccess(r)
    \/ \E r \in Slots : Handler(r)
    \/ \E r \in Slots : CheckBudget(r)
    \/ \E r \in Slots : UpstreamFails(r)
    \/ \E r \in Slots : UpstreamResponds(r)
    \/ \E r \in Slots : AddGet(r)
    \/ \E r \in Slots : AddSet(r)
    \/ \E r \in Slots : Finish(r)
    \/ Tick

Spec == Init /\ [][Next]_vars

\* The same program with its requests served one at a time.
SeqNext ==
    \/ SeqStart
    \/ \E r \in Slots : Initial(r)
    \/ \E r \in Slots : ThrottleSuccess(r)
    \/ \E r \in Slots : Handler(r)
    \/ \E r \in Slots : CheckBudget(r)
    \/ \E r \in Slots : UpstreamFails(r)
    \/ \E r \in Slots : UpstreamResponds(r)
    \/ \E r \in Slots : AddGet(r)
    \/ \E r \in Slots : AddSet(r)
    \/ \E r \in Slots : Finish(r)
    \/ Tick

SeqSpec == Init /\ [][SeqNext]_vars


\* ------------------------------------------------- the standard routes
\* LocationViewSet, FactionViewSet, ItemViewSet, CharacterViewSet and
\* StoryViewSet are ModelViewSets over all rows of their table, each with the
\* permission classes IsAuthenticatedOrReadOnly and IsOwnerOrReadOnly and a
\* perform_create that sets created_by.  A request to one of their standard
\* routes is served in one step.

\* The name (the title, of a story) a request carries; the empty one is not
\* valid for a required CharField.
Names == {<<"a">>, <<"b">>, << >>}
Titles == {<<"a">>, <<"A">>, <<"b">>, << >>}

\* What a request sends: a name, possibly a created_by and possibly a
\* reference to a location (the parent of a location, the location of a
\* faction or a character); None for a field that is not sent.
NoData == [name |-> << >>, created_by |-> None, ref |-> None]

NameField(kind) == IF kind = "story" THEN "title" ELSE "name"

\* Location.parent, Faction.location, Character.location
HasRef(kind) == kind \in {"location", "faction", "character"}
RefField(kind) == IF kind = "location" THEN "parent" ELSE "location"

\* serializer.is_valid(): the name is required and not blank, a reference
\* names a location that exists
IsValid(kind, data) ==
    /\ data.name # << >>
    /\ (HasRef(kind) /\ data.ref # None) => data.ref[1] \in DOMAIN db["location"]

\* the serializer with no read-only field
validated_data_all(kind, data) == data

\* Meta.read_only_fields: created_by is dropped from what the request sent
validated_data(kind, data) == [data EXCEPT !.created_by = None]

\* the status of a request without credentials that needs them
NotAuthenticatedStatus == 401

\* the permission granted to every caller
has_permission_any(method, user) == TRUE

\* IsAuthenticatedOrReadOnly.has_permission
has_permission(method, user) ==
    method \in {"GET", "HEAD", "OPTIONS"} \/ IsAuthenticated(user)

\* the slug derived from the title on every save
story_save_always(row, creating) == [row EXCEPT !.slug = Slugify(row.title)]

\* Story.save: the slug is derived from the title when the story is created
story_save(row, creating) ==
    IF creating THEN [row EXCEPT !.slug = Slugify(row.title)] ELSE row

\* perform_create: serializer.save(created_by=self.request.user)
NewRow(kind, user, data) ==
    IF kind = "story"
    THEN story_save([created_by |-> user, title |-> data.name, summary |-> << >>,
                     body |-> << >>, slug |-> << >>], TRUE)
    ELSE IF kind = "location"
    THEN [created_by |-> user, name |-> data.name, parent |-> data.ref]
    ELSE IF kind = "item"
    THEN [created_by |-> user, name |-> data.name]
    ELSE [created_by |-> user, name |-> data.name, location |-> data.ref]

\* serializer.save() of an update: the fields sent and validated are set
UpdatedRow(kind, row, data) ==
    LET named == [row EXCEPT ![NameField(kind)] = data.name]
        owned == IF data.created_by = None THEN named
                 ELSE [named EXCEPT !.created_by = data.created_by]
        linked == IF HasRef(kind) /\ data.ref # None
                  THEN [owned EXCEPT ![RefField(kind)] = data.ref]
                  ELSE owned
    IN  IF kind = "story" THEN story_save(linked, FALSE) ELSE linked

\* a slug column without the unique constraint
IntegrityErrorNever(kind, row) == FALSE

\* the unique constraint on Story.slug: the row cannot be inserted
IntegrityError(kind, row) ==
    kind = "story" /\ \E p \in DOMAIN db["story"] : db["story"][p].slug = row.slug

\* on_delete=CASCADE: the rows that refer to the deleted one go with it
on_delete_cascade(table, field, target) ==
    [p \in {x \in DOMAIN table : table[x][field] # target} |-> table[p]]

\* on_delete=SET_NULL: the rows that refer to the deleted one lose the reference
on_delete_set_null(table, field, target) ==
    [p \in DOMAIN table |->
        IF table[p][field] = target THEN [table[p] EXCEPT ![field] = None]
        ELSE table[p]]

\* The tables after row pk of a kind is deleted.
Deleted(kind, pk) ==
    LET gone == [db EXCEPT ![kind] = [p \in (DOMAIN @) \ {pk} |-> @[p]]]
    IN  IF kind # "location" THEN gone
        ELSE [k \in Kinds |->
                 IF k = "location" THEN on_delete_set_null(gone[k], "parent", Some(pk))
                 ELSE IF k \in {"faction", "character"}
                 THEN on_delete_set_null(gone[k], "location", Some(pk))
                 ELSE gone[k]]

\* The rows created through the API so far.
Created ==
    next_pk["location"] + next_pk["faction"] + next_pk["item"]
        + next_pk["character"] + next_pk["story"] - 5

Answer(method, kind, pk, user, data, status) ==
    [method |-> method, kind |-> kind, pk |-> pk, user |-> user, data |-> data,
     status |-> status]

\* What the standard routes leave alone.
analyze_vars ==
    <<settings, cache_tokens, cache_throttle, now, req, started, tokens_reported,
      admitted>>

\* The state before any request: empty tables, AI in mock mode.
CrudInit ==
    /\ settings = [LORESMITH_AI_ENABLED |-> TRUE, OPENAI_API_KEY |-> FALSE,
                   LORESMITH_MAX_INPUT_CHARS |-> MaxInputChars,
                   LORESMITH_DAILY_TOKEN_BUDGET |-> MaxBudget]
    /\ users = Users
    /\ db = [k \in Kinds |-> << >>]
    /\ next_pk = [k \in Kinds |-> 1]
    /\ last = NoRequest
    /\ cache_tokens = [d \in Days |-> None]
    /\ cache_throttle = [u \in Users |-> << >>]
    /\ now = 0
    /\ req = [r \in Slots |-> Fresh]
    /\ started = 0
    /\ tokens_reported = [d \in Days |-> 0]
    /\ admitted = cache_throttle

\* GET /<kind>/: the list route
List(kind, user) ==
    /\ last' = Answer("GET", kind, 0, user, NoData,
                      IF has_permission("GET", user) THEN 200 ELSE NotAuthenticatedStatus)
    /\ UNCHANGED <<db, next_pk>>
    /\ UNCHANGED <<users, analyze_vars>>

\* POST /<kind>/: the create route
Create(kind, user, data) ==
    /\ IF ~has_permission("POST", user)
       THEN /\ last' = Answer("POST", kind, 0, user, data, NotAuthenticatedStatus)
            /\ UNCHANGED <<db, next_pk>>
       ELSE IF ~IsValid(kind, data)
       THEN /\ last' = Answer("POST", kind, 0, user, data, 400)
            /\ UNCHANGED <<db, next_pk>>
       ELSE IF IntegrityError(kind, NewRow(kind, user, validated_data(kind, data)))
       THEN /\ last' = Answer("POST", kind, 0, user, data, 500)
            /\ UNCHANGED <<db, next_pk>>
       ELSE /\ db' = [db EXCEPT ![kind] =
                         (next_pk[kind] :> NewRow(kind, user, validated_data(kind, data)))
                             @@ @]
            /\ next_pk' = [next_pk EXCEPT ![kind] = @ + 1]
            /\ last' = Answer("POST", kind, next_pk[kind], user, data, 201)
    /\ UNCHANGED <<users, analyze_vars>>

\* GET /<kind>/<pk>/: the retrieve route
Retrieve(kind, pk, user) ==
    /\ last' = Answer("GET", kind, pk, user, NoData,
                      IF ~has_permission("GET", user) THEN NotAuthenticatedStatus
                      ELSE IF pk \notin DOMAIN db[kind] THEN 404
                      ELSE IF ~has_object_permission("GET", db[kind][pk], user) THEN 403
                      ELSE 200)
    /\ UNCHANGED <<db, next_pk>>
    /\ UNCHANGED <<users, analyze_vars>>

\* PUT and PATCH /<kind>/<pk>/: the update routes
Update(kind, pk, user, method, data) ==
    /\ IF ~has_permission(method, user)
       THEN /\ last' = Answer(method, kind, pk, user, data, NotAuthenticatedStatus)
            /\ UNCHANGED db
       ELSE IF pk \notin DOMAIN db[kind]
       THEN /\ last' = Answer(method, kind, pk, user, data, 404)
            /\ UNCHANGED db
       ELSE IF ~has_object_permission(method, db[kind][pk], user)
       THEN /\ last' = Answer(method, kind, pk, user, data, 403)
            /\ UNCHANGED db
       ELSE IF ~IsValid(kind, data)
       THEN /\ last' = Answer(method, kind, pk, user, data, 400)
            /\ UNCHANGED db
       ELSE /\ db' = [db EXCEPT ![kind][pk] =
                         UpdatedRow(kind, @, validated_data(kind, data))]
            /\ last' = Answer(method, kind, pk, user, data, 200)
    /\ UNCHANGED next_pk
    /\ UNCHANGED <<users, analyze_vars>>

\* DELETE /<kind>/<pk>/: the destroy route
Destroy(kind, pk, user) ==
    /\ IF ~has_permission("DELETE", user)
       THEN /\ last' = Answer("DELETE", kind, pk, user, NoData, NotAuthenticatedStatus)
            /\ UNCHANGED db
       ELSE IF pk \notin DOMAIN db[kind]
       THEN /\ last' = Answer("DELETE", kind, pk, user, NoData, 404)
            /\ UNCHANGED db
       ELSE IF ~has_object_permission("DELETE", db[kind][pk], user)
       THEN /\ last' = Answer("DELETE", kind, pk, user, NoData, 403)
            /\ UNCHANGED db
       ELSE /\ db' = Deleted(kind, pk)
            /\ last' = Answer("DELETE", kind, pk, user, NoData, 204)
    /\ UNCHANGED next_pk
    /\ UNCHANGED <<users, analyze_vars>>

\* An account is deleted (not through these routes): created_by is
\* on_delete=SET_NULL in every model.
DeleteUser(u) ==
    /\ u \in users
    /\ \A r \in Slots : req[r].pc \in {"idle", "done"} \/ req[r].user # u
    /\ users' = users \ {u}
    /\ db' = [k \in Kinds |-> on_delete_set_null(db[k], "created_by", u)]
    /\ last' = NoRequest
    /\ UNCHANGED next_pk
    /\ UNCHANGED analyze_vars

\* A create that would add a row is taken only below the cap.
UnderCap(kind, user, data, cap) ==
    (/\ has_permission("POST", user)
     /\ IsValid(kind, data)
     /\ ~IntegrityError(kind, NewRow(kind, user, validated_data(kind, data))))
        => Created < cap

\* The five resources, the requests sending a name and possibly a created_by.
CrudData == [name : Names, created_by : {None} \cup Users, ref : {None}]

CrudNext ==
    \E kind \in Kinds, user \in users \cup {Anonymous} :
        \/ List(kind, user)
        \/ \E data \in CrudData :
              UnderCap(kind, user, data, MaxCreates) /\ Create(kind, user, data)
        \/ \E pk \in 1..MaxCreates : Retrieve(kind, pk, user)
        \/ \E pk \in 1..MaxCreates, method \in {"PUT", "PATCH"}, data \in CrudData :
              Update(kind, pk, user, method, data)
        \/ \E pk \in 1..MaxCreates : Destroy(kind, pk, user)

CrudSpec == CrudInit /\ [][CrudNext]_vars

\* The story routes alone, with room for two stories and titles that share
\* a slug.
StoryData == [name : Titles, created_by : {None}, ref : {None}]

StoryNext ==
    \E user \in users \cup {Anonymous} :
        \/ List("story", user)
        \/ \E data \in StoryData :
              UnderCap("story", user, data, MaxStories) /\ Create("story", user, data)
        \/ \E pk \in 1..MaxStories : Retrieve("story", pk, user)
        \/ \E pk \in 1..MaxStories, method \in {"PUT", "PATCH"}, data \in StoryData :
              Update("story", pk, user, method, data)
        \/ \E pk \in 1..MaxStories : Destroy("story", pk, user)

StorySpec == CrudInit /\ [][StoryNext]_vars

\* The resources that refer to a location, the requests sending a reference,
\* and the deletion of users.
WorldKinds == {"location", "faction", "character"}
WorldData ==
    [name : {<<"a">>}, created_by : {None},
     ref : {None} \cup {Some(p) : p \in 1..MaxWorldRows}]

WorldNext ==
    \/ \E kind \in WorldKinds, user \in users \cup {Anonymous} :
          \/ \E data \in WorldData :
                UnderCap(kind, user, data, MaxWorldRows) /\ Create(kind, user, data)
          \/ \E pk \in 1..MaxWorldRows, data \in WorldData :
                Update(kind, pk, user, "PATCH", data)
          \/ \E pk \in 1..MaxWorldRows : Destroy(kind, pk, user)
    \/ \E u \in Users : DeleteUser(u)

WorldSpec == CrudInit /\ [][WorldNext]_vars

\* The story fixture with every story route, analyze included, served one
\* request at a time, and the deletion of users.
OrphanData == [name : {<<"b">>}, created_by : {None}, ref : {None}]

OrphanNext ==
    \/ SeqStart
    \/ \E r \in Slots : Initial(r)
    \/ \E r \in Slots : ThrottleSuccess(r)
    \/ \E r \in Slots : Handler(r)
    \/ \E r \in Slots : CheckBudget(r)
    \/ \E r \in Slots : UpstreamFails(r)
    \/ \E r \in Slots : UpstreamResponds(r)
    \/ \E r \in Slots : AddGet(r)
    \/ \E r \in Slots : AddSet(r)
    \/ \E r \in Slots : Finish(r)
    \/ Tick
    \/ \E u \in Users : DeleteUser(u)
    \/ /\ \A r \in Slots : req[r].pc = "idle"
       /\ \E user \in users \cup {Anonymous}, pk \in 1..NumStories :
             \/ Retrieve("story", pk, user)
             \/ \E data \in OrphanData : Update("story", pk, user, "PATCH", data)
             \/ Destroy("story", pk, user)

\* The AI switched on with a key and the whole budget, no request so far.
OrphanInit ==
    /\ Init
    /\ settings.LORESMITH_AI_ENABLED
    /\ settings.OPENAI_API_KEY
    /\ settings.LORESMITH_DAILY_TOKEN_BUDGET = MaxBudget
    /\ cache_throttle = [u \in Users |-> << >>]

OrphanSpec == OrphanInit /\ [][OrphanNext]_vars

\* ================================================================ claims
Budget == settings.LORESMITH_DAILY_TOKEN_BUDGET
LiveSettings == settings.LORESMITH_AI_ENABLED /\ settings.OPENAI_API_KEY
BudgetMessage == "AI daily token budget exceeded. Try again tomorrow."
\* The tokens the ledger holds for day d.
Ledger(d) == IF cache_tokens[d] = None THEN 0 ELSE cache_tokens[d][1]
AllAnswered == \A r \in Slots : req[r].pc \in {"idle", "done"}

\* The calls of user u that the throttle admitted within the current window.
WindowCount(u) ==
    Cardinality({i \in DOMAIN admitted[u] : admitted[u][i] > now - ThrottleDuration})

\* The request of slot r got past authentication, the throttle, the lookup
\* and the ownership check.
Entitled(r) ==
    /\ req[r].user # Anonymous
    /\ ~req[r].throttled
    /\ req[r].pk \in DOMAIN stories
    /\ stories[req[r].pk].created_by = req[r].user

BlankStory(pk) ==
    \A part \in {stories[pk].title, stories[pk].summary, stories[pk].body} :
        \A i \in 1..Len(part) : part[i] \in {" ", NL}

\* C1 (as claimed): once every live call has been answered, and answered 200,
\* the ledger of each day holds exactly the sum of the totals the calls handed
\* to add_daily_tokens_used on that day: no increment is lost.
C1_NoLostIncrement ==
    (AllAnswered /\ \A r \in Slots : req[r].pc = "done" => req[r].status = 200)
        => \A d \in Days : Ledger(d) = tokens_reported[d]

\* C2 (as claimed): the tokens recorded for a day never exceed the daily
\* token budget.
C2_BudgetIsCeiling == \A d \in Days : Ledger(d) <= Budget

\* C3: a live call whose budget check read a usage at or over the budget is
\* answered 429 with the budget message and has made no upstream call and no
\* ledger write.
C3_BudgetExceededStopsCall ==
    \A r \in Slots :
        (req[r].pc = "done" /\ req[r].used # None /\ req[r].used[1] >= Budget)
            => /\ req[r].status = 429
               /\ req[r].detail = BudgetMessage
               /\ req[r].upstream_calls = 0
               /\ req[r].ledger_writes = 0
               /\ req[r].response = None

C3_Witness ==
    \E r \in Slots :
        /\ req[r].pc = "done" /\ LiveSettings
        /\ req[r].used # None /\ req[r].used[1] >= Budget
        /\ req[r].status = 429 /\ req[r].upstream_calls = 0

\* C4: with AI disabled or no key, analyze_text on a text that is not blank
\* answers the mock result (ai_mode mock, model null, token counts 0), makes no
\* upstream call and neither reads nor writes the ledger, which stays as it was.
C4_MockModeLeavesLedger ==
    ~LiveSettings =>
        /\ cache_tokens = [d \in Days |-> None]
        /\ \A r \in Slots :
              (req[r].pc = "done" /\ req[r].raw # None)
                  => /\ req[r].status = 200
                     /\ req[r].analysis # None
                     /\ req[r].analysis[1].meta =
                           [ai_mode |-> "mock", model |-> None, input_tokens |-> Some(0),
                            output_tokens |-> Some(0), total_tokens |-> Some(0)]
                     /\ req[r].upstream_calls = 0
                     /\ req[r].ledger_reads = 0
                     /\ req[r].ledger_writes = 0

C4_Witness ==
    \E r \in Slots :
        /\ ~LiveSettings /\ req[r].pc = "done" /\ req[r].raw # None
        /\ req[r].status = 200 /\ req[r].analysis # None

\* C5: the analysis of a story whose title, summary and body are all empty or
\* blank is answered 400 "Nothing to analyze", with no upstream call, no ledger
\* read and no service made.
C5_BlankTextIs400 ==
    \A r \in Slots :
        (req[r].pc = "done" /\ Entitled(r) /\ BlankStory(req[r].pk))
            => /\ req[r].status = 400
               /\ req[r].detail = "Nothing to analyze (title/summary/body are empty)."
               /\ req[r].upstream_calls = 0
               /\ req[r].ledger_reads = 0
               /\ ~req[r].service_made

C5_Witness ==
    \E r \in Slots :
        /\ req[r].pc = "done" /\ Entitled(r) /\ BlankStory(req[r].pk)
        /\ req[r].status = 400

\* C6 (as claimed): a text T longer than max_input_chars is passed on as its
\* first max_input_chars characters.
C6_PrefixOfInput ==
    \A r \in Slots :
        (req[r].text # None /\ Len(req[r].raw[1]) > settings.LORESMITH_MAX_INPUT_CHARS)
            => /\ Len(req[r].text[1]) = settings.LORESMITH_MAX_INPUT_CHARS
               /\ req[r].text[1] =
                     SubSeq(req[r].raw[1], 1, settings.LORESMITH_MAX_INPUT_CHARS)

\* C6 (amended): a text T whose stripped form is longer than max_input_chars
\* is passed on as the first max_input_chars characters of the stripped form.
C6_PrefixOfStrippedInput ==
    \A r \in Slots :
        (req[r].text # None
         /\ Len(Strip(req[r].raw[1])) > settings.LORESMITH_MAX_INPUT_CHARS)
            => /\ Len(req[r].text[1]) = settings.LORESMITH_MAX_INPUT_CHARS
               /\ req[r].text[1] =
                     SubSeq(Strip(req[r].raw[1]), 1, settings.LORESMITH_MAX_INPUT_CHARS)

C6_Witness ==
    \E r \in Slots :
        /\ req[r].text # None
        /\ Len(Strip(req[r].raw[1])) > settings.LORESMITH_MAX_INPUT_CHARS
        /\ req[r].raw[1][1] \in Whitespace
        /\ Len(req[r].text[1]) = settings.LORESMITH_MAX_INPUT_CHARS

\* C7 (as claimed): a request whose upstream call raised, or whose response
\* could not be read or parsed, is answered 503.
C7_UpstreamErrorsAre503 ==
    \A r \in Slots :
        (/\ req[r].pc = "done"
         /\ req[r].upstream_calls > 0
         /\ (req[r].response = None \/ ~req[r].response[1].parsed.readable))
            => req[r].status = 503

\* C8: served one after the other, a request of an authenticated user is
\* admitted exactly when fewer than ThrottleNumRequests of that user's calls
\* were admitted in the current window; a refused one is answered 429, an
\* admitted one is recorded, and the recorded history is the admitted calls.
C8_Decision ==
    \A r \in Slots :
        (req[r].pc = "initial" /\ req'[r].pc # "initial" /\ req[r].user # Anonymous)
            => /\ req'[r].throttled <=> WindowCount(req[r].user) >= ThrottleNumRequests
               /\ req'[r].throttled => req'[r].pc = "done" /\ req'[r].status = 429
               /\ ~req'[r].throttled => req'[r].pc = "throttle_success"

C8_Recorded ==
    \A u \in Users :
        (\A r \in Slots : req[r].pc # "throttle_success")
            => Len(DropExpired(cache_throttle[u], now)) = WindowCount(u)

C8_RateLimit == [](C8_Recorded) /\ [][C8_Decision]_vars

C8_Witness ==
    \E r \in Slots :
        /\ req[r].throttled /\ req[r].status = 429
        /\ WindowCount(req[r].user) = ThrottleNumRequests
        /\ cache_throttle[req[r].user] = <<0, 0>>
        /\ started = 3

\* C9 (as claimed): in any interleaving, at most ThrottleNumRequests requests
\* of one user are admitted within one window.
C9_AtMostNAdmitted == \A u \in Users : WindowCount(u) <= ThrottleNumRequests

\* C10: a request the throttle refused is answered 429 at once: no service is
\* made, analyze_text is not entered, the ledger is neither read nor written
\* and no upstream call is made.
C10_ThrottledBeforePipeline ==
    \A r \in Slots :
        req[r].throttled
            => /\ req[r].pc = "done"
               /\ req[r].status = 429
               /\ ~req[r].service_made
               /\ req[r].raw = None
               /\ req[r].ledger_reads = 0
               /\ req[r].ledger_writes = 0
               /\ req[r].upstream_calls = 0

C10_Witness == \E r \in Slots : req[r].throttled /\ req[r].pc = "done"

\* The request of slot r is one of an authenticated caller who does not own
\* the story it names (a story that does not exist has no owner).
NonOwner(r) ==
    /\ req[r].pc \notin {"idle", "initial"}
    /\ req[r].user # Anonymous
    /\ req[r].pk \in DOMAIN stories => stories[req[r].pk].created_by # req[r].user

NoPipeline(r) ==
    /\ ~req[r].service_made
    /\ req[r].raw = None
    /\ req[r].ledger_reads = 0
    /\ req[r].ledger_writes = 0
    /\ req[r].upstream_calls = 0
    /\ req[r].response = None

\* C11 (as claimed): an authenticated caller who does not own the story is
\* answered 403 or 404 and nothing else, and the request runs no pipeline,
\* makes no upstream call and leaves the ledger alone.
C11_NonOwnerIs403Or404 ==
    \A r \in Slots :
        NonOwner(r)
            => /\ req[r].pc = "done" => req[r].status \in {403, 404}
               /\ NoPipeline(r)

\* C11 (amended): an authenticated caller who does not own the story is never
\* answered 200: the answer is 429 when the throttle refuses the request, else
\* 404 when the story does not exist, else 403; the request runs no pipeline,
\* makes no upstream call and neither reads nor writes the ledger.
C11_NonOwnerNever200 ==
    \A r \in Slots :
        NonOwner(r)
            => /\ req[r].pc = "done" =>
                     req[r].status = IF req[r].throttled THEN 429
                                     ELSE IF req[r].pk \notin DOMAIN stories THEN 404
                                     ELSE 403
               /\ NoPipeline(r)

C11_Witness ==
    \E r \in Slots :
        /\ NonOwner(r) /\ req[r].pc = "done" /\ ~req[r].throttled
        /\ req[r].pk \in DOMAIN stories /\ req[r].status = 403

\* The request of slot r entered analyze_text and was answered.
PipelineDone(r) == req[r].pc = "done" /\ req[r].service_made

\* C12 (as claimed): every run of the pipeline ends in exactly one of three
\* statuses: 200 when it produced an analysis, 429 when the budget check
\* refused it, and 503 for every other failure.
C12_FailureStatus ==
    \A r \in Slots :
        PipelineDone(r)
            => req[r].status =
                  IF req[r].analysis # None THEN 200
                  ELSE IF req[r].used # None /\ req[r].used[1] >= Budget THEN 429
                  ELSE 503

\* C13: served one at a time, a live call whose response reports a total
\* goes on to the ledger and its write raises the entry of the day by exactly
\* that total, every other day's entry staying as it was; a call whose
\* response reports no total is answered with the ledger untouched.
C13_Step ==
    \A r \in Slots :
        /\ (req[r].pc = "upstream" /\ req'[r].response # None)
              => IF req'[r].response[1].usage = None
                 THEN /\ req'[r].pc = "done"
                      /\ req'[r].ledger_writes = 0
                      /\ cache_tokens' = cache_tokens
                 ELSE /\ req'[r].pc = "add_get"
                      /\ cache_tokens' = cache_tokens
        /\ (req[r].pc = "add_get" /\ req'[r].pc = "add_set")
              => /\ req'[r].key = now \div TicksPerDay
                 /\ cache_tokens' = cache_tokens
        /\ (req[r].pc = "add_set" /\ req'[r].pc = "done")
              => /\ req'[r].ledger_writes = 1
                 /\ cache_tokens' =
                       [cache_tokens EXCEPT ![req[r].key] =
                           Some(Ledger(req[r].key)
                                + req[r].response[1].usage[1].total_tokens)]

C13_LedgerGrowsByTotal == [][C13_Step]_vars

C13_Witness ==
    \E r \in Slots :
        /\ req[r].pc = "done" /\ req[r].status = 200 /\ req[r].ledger_writes = 1
        /\ req[r].used = Some(1)
        /\ req[r].response[1].usage[1].total_tokens = 1
        /\ Ledger(now \div TicksPerDay) = 2

\* C14: with AI disabled or no key, a text that is not blank is answered 200
\* with the mock result even when the recorded usage of every day is at or
\* over the budget; the budget is not consulted and the answer is never 429.
C14_MockBeforeBudget ==
    \A r \in Slots :
        (/\ ~LiveSettings
         /\ \A d \in Days : Ledger(d) >= Budget
         /\ req[r].pc = "done" /\ req[r].raw # None)
            => /\ req[r].status = 200
               /\ req[r].analysis # None
               /\ req[r].analysis[1].meta.ai_mode = "mock"
               /\ req[r].used = None
               /\ req[r].ledger_reads = 0

C14_Witness ==
    \E r \in Slots :
        /\ ~LiveSettings /\ Ledger(now \div TicksPerDay) >= Budget
        /\ req[r].pc = "done" /\ req[r].raw # None /\ req[r].status = 200
        /\ req[r].analysis[1].themes = <<"mock-theme">>

\* C15: one run of analyze_text makes at most one upstream call, a failed call
\* is not tried again, and a call is made (or about to be made) only once the
\* text was found not blank, was cut to the limit, the live mode was chosen
\* and the budget check read a usage under the budget.
C15_OneUpstreamCall ==
    \A r \in Slots :
        /\ req[r].upstream_calls <= 1
        /\ (req[r].upstream_calls = 1 /\ req[r].response = None)
              => req[r].pc = "done" /\ req[r].status = 503
        /\ (req[r].upstream_calls = 1 \/ req[r].pc = "upstream")
              => /\ req[r].raw # None /\ Strip(req[r].raw[1]) # << >>
                 /\ req[r].text # None
                 /\ Len(req[r].text[1]) <= settings.LORESMITH_MAX_INPUT_CHARS
                 /\ LiveSettings
                 /\ req[r].used # None /\ req[r].used[1] < Budget

C15_Witness ==
    \E r \in Slots :
        /\ req[r].pc = "done" /\ req[r].upstream_calls = 1 /\ req[r].response = None
        /\ req[r].status = 503
        /\ Len(Strip(req[r].raw[1])) > settings.LORESMITH_MAX_INPUT_CHARS

\* C16: what the caller sees of a failed upstream call does not depend on the
\* upstream error: any two requests whose upstream calls failed, with whatever
\* errors, are answered with the same status, 503, and the same detail.
C16_SameAnswerForAnyUpstreamError ==
    \A r1, r2 \in Slots :
        (/\ req[r1].pc = "done" /\ req[r1].upstream_error # None
         /\ req[r2].pc = "done" /\ req[r2].upstream_error # None)
            => /\ req[r1].status = 503
               /\ req[r1].status = req[r2].status
               /\ req[r1].detail = req[r2].detail
               /\ req[r1].analysis = None

C16_Witness ==
    \E r1, r2 \in Slots :
        /\ req[r1].pc = "done" /\ req[r1].upstream_error # None
        /\ req[r2].pc = "done" /\ req[r2].upstream_error # None
        /\ req[r1].upstream_error # req[r2].upstream_error
        /\ req[r1].detail = req[r2].detail

\* C17: a live call whose parsed output leaves out some or all of the six
\* keys is answered 200 all the same: a key left out comes back empty (the
\* empty string, the empty list), a key present comes back with its value,
\* and meta names the mode "live" and the configured model.
C17_OmittedKeysDefault ==
    \A r \in Slots :
        (/\ req[r].pc = "done" /\ req[r].response # None
         /\ req[r].response[1].parsed.readable)
            => /\ req[r].status = 200
               /\ req[r].analysis # None
               /\ \A k \in ParsedKeys :
                     req[r].analysis[1][k] =
                        IF k \in req[r].response[1].parsed.keys THEN <<"v">> ELSE << >>
               /\ req[r].analysis[1].meta.ai_mode = "live"
               /\ req[r].analysis[1].meta.model = Some("gpt-4.1-mini")

C17_Witness ==
    \E r \in Slots :
        /\ req[r].pc = "done" /\ req[r].response # None
        /\ req[r].response[1].parsed.readable
        /\ req[r].response[1].parsed.keys = {}
        /\ req[r].status = 200
        /\ req[r].analysis[1].summary = << >> /\ req[r].analysis[1].themes = << >>

\* C18: the ledger is kept per day.  A day on which no tokens were recorded
\* has no entry, whatever was recorded on other days, and the budget check
\* reads 0 when the current day has no entry and the current day's entry
\* otherwise; so the first read after midnight is 0 with nothing reset.
C18_NoEntryForOtherDays ==
    \A d \in Days : tokens_reported[d] = 0 => cache_tokens[d] = None

C18_Read ==
    \A r \in Slots :
        (req[r].pc = "check_budget" /\ req'[r].pc # "check_budget")
            => /\ req'[r].used # None
               /\ req'[r].used[1] = Ledger(now \div TicksPerDay)
               /\ cache_tokens[now \div TicksPerDay] = None => req'[r].used[1] = 0
               /\ cache_tokens' = cache_tokens

C18_PerDayLedger == [](C18_NoEntryForOtherDays) /\ [][C18_Read]_vars

C18_Witness ==
    \E r \in Slots :
        /\ req[r].user = Some(1) /\ admitted[Some(1)] = <<0, 1>>
        /\ req[r].pc = "upstream" /\ req[r].used = Some(0)
        /\ cache_tokens[0] # None /\ cache_tokens[1] = None

\* The row the last request named, as it was before the request, exists.
Named(l) == l.kind \in Kinds /\ l.pk \in DOMAIN db[l.kind]

\* C19: for each of the five resources, an update (PUT or PATCH) or a delete
\* of an existing row by an authenticated caller who is not its owner is
\* answered 403 and changes no table; by the owner, a delete is answered 204
\* and removes the row, and an update with a valid name is answered 200 and
\* sets the name, the owner staying.
C19_Step ==
    LET l == last'
    IN  (l.method \in {"PUT", "PATCH", "DELETE"} /\ l.user # Anonymous /\ Named(l))
            => IF db[l.kind][l.pk].created_by # l.user
               THEN /\ l.status = 403
                    /\ db' = db
               ELSE IF l.method = "DELETE"
               THEN /\ l.status = 204
                    /\ l.pk \notin DOMAIN db'[l.kind]
               ELSE l.data.name # << >>
                       => /\ l.status = 200
                          /\ DOMAIN db'[l.kind] = DOMAIN db[l.kind]
                          /\ db'[l.kind][l.pk][NameField(l.kind)] = l.data.name
                          /\ db'[l.kind][l.pk].created_by = l.user

C19_OwnerOnlyWrites == [][C19_Step]_vars

C19_Witness ==
    /\ last.method = "DELETE" /\ last.status = 403
    /\ last.user # Anonymous /\ Named(last)
    /\ db[last.kind][last.pk].created_by # last.user
    /\ db[last.kind][last.pk].created_by # None

\* C20: for each of the five resources, a create without credentials is
\* answered 401 and adds no row; a list is answered 200 for any caller, and
\* so is the retrieve of a row that exists; neither changes a table.
C20_Step ==
    LET l == last'
    IN  /\ (l.method = "POST" /\ l.user = Anonymous)
              => /\ l.status = 401
                 /\ db' = db
                 /\ next_pk' = next_pk
        /\ (l.method = "GET" /\ (l.pk = 0 \/ Named(l)))
              => /\ l.status = 200
                 /\ db' = db

C26_NoDecrease == \A d \in Days : Ledger(d)' >= Ledger(d)

C26_LedgerMonotone == [][C26_NoDecrease]_vars

\* The request of slot r got a response that reports a total and whose parsed
\* output cannot be read.
CountedButUnreadable(q) ==
    /\ q.response # None
    /\ q.response[1].usage # None
    /\ ~q.response[1].parsed.readable

\* C27: served one at a time, a call whose response reports a total N and
\* whose output then cannot be read is answered with a failure only after the
\* ledger was written: the step that fails the request is the one that raises
\* the entry of the day by N, and the answered request has made its write.
C27_Answered ==
    \A r \in Slots :
        (req[r].pc = "done" /\ CountedButUnreadable(req[r]))
            => /\ req[r].status \notin {0, 200}
               /\ req[r].analysis = None
               /\ req[r].ledger_writes = 1

C27_Step ==
    \A r \in Slots :
        (req[r].pc # "done" /\ req'[r].pc = "done" /\ CountedButUnreadable(req'[r]))
            => /\ req[r].pc = "add_set"
               /\ cache_tokens'[req[r].key] =
                     Some(Ledger(req[r].key) + req[r].response[1].usage[1].total_tokens)

C27_RecordedBeforeParsing == [](C27_Answered) /\ [][C27_Step]_vars

C27_Witness ==
    \E r \in Slots :
        /\ req[r].pc = "done" /\ CountedButUnreadable(req[r])
        /\ req[r].response[1].usage[1].total_tokens = 2
        /\ req[r].status = 500
        /\ Ledger(now \div TicksPerDay) = 2

\* C28: a call whose upstream request raised leaves the ledger as it was: the
\* step in which the call fails changes no entry, and the failed request has
\* read the ledger once (the budget check) and never written it.
C28_Failed ==
    \A r \in Slots :
        req[r].upstream_error # None
            => /\ req[r].pc = "done"
               /\ req[r].response = None
               /\ req[r].ledger_reads = 1
               /\ req[r].ledger_writes = 0

C28_Step ==
    \A r \in Slots :
        (req[r].pc = "upstream" /\ req'[r].upstream_error # None)
            => /\ cache_tokens' = cache_tokens
               /\ tokens_reported' = tokens_reported

C28_FailureLeavesLedger == [](C28_Failed) /\ [][C28_Step]_vars

C28_Witness ==
    \E r \in Slots :
        /\ req[r].pc = "done" /\ req[r].upstream_error # None
        /\ req[r].used = Some(1)
        /\ Ledger(now \div TicksPerDay) = 1

\* The request of slot r is past the throttle.
PastThrottle(r) == req[r].pc \notin {"idle", "initial", "throttle_success"}

\* C29: served one at a time, a request of an authenticated caller that the
\* throttle admitted has its admission time at the head of the caller's
\* history from the moment it reaches the handler, whatever it is answered
\* with (200, 400, 403, 404, 429 for the budget, 500, 503); and the histories
\* are written by admitted requests of authenticated callers only, so a
\* refused request and a request without credentials record nothing.
C29_Recorded ==
    \A r \in Slots :
        (PastThrottle(r) /\ req[r].user # Anonymous /\ ~req[r].throttled)
            => /\ cache_throttle[req[r].user] # << >>
               /\ admitted[req[r].user] # << >>
               /\ cache_throttle[req[r].user][1] =
                     admitted[req[r].user][Len(admitted[req[r].user])]

C29_Writes ==
    cache_throttle' # cache_throttle
        => \E r \in Slots :
              /\ req[r].pc = "throttle_success" /\ req'[r].pc = "handler"
              /\ req[r].user # Anonymous /\ ~req[r].throttled
              /\ cache_throttle' =
                    [cache_throttle EXCEPT ![req[r].user] = <<req[r].t>> \o req[r].history]

C29_BeforePipeline ==
    \A r \in Slots :
        req[r].pc \in {"initial", "throttle_success"}
            => /\ ~req[r].service_made /\ req[r].raw = None
               /\ req[r].status = 0

C29_AdmittedIsRecorded ==
    [](C29_Recorded /\ C29_BeforePipeline) /\ [][C29_Writes]_vars

C29_Witness ==
    \E r \in Slots :
        /\ req[r].pc = "done" /\ req[r].status = 403 /\ ~req[r].throttled
        /\ req[r].user = Some(2)
        /\ cache_throttle[Some(2)] = <<0, 0>>

\* C21: a row created through the API is owned by the authenticated caller
\* who created it, whatever created_by the request sent, and no request to
\* the standard routes changes the owner of a row that stays.
C21_Step ==
    LET l == last'
    IN  /\ (l.method = "POST" /\ l.status = 201) =>
              /\ IsAuthenticated(l.user)
              /\ l.pk \notin DOMAIN db[l.kind]
              /\ db'[l.kind][l.pk].created_by = l.user
        /\ \A k \in Kinds : \A p \in (DOMAIN db[k]) \cap (DOMAIN db'[k]) :
              db'[k][p].created_by = db[k][p].created_by

C21_OwnerIsCreator == [][C21_Step]_vars

\* an owner has updated a row with another user as created_by in the request,
\* after creating it with that other user as created_by too
C21_Witness ==
    /\ last.method \in {"PUT", "PATCH"}
    /\ last.status = 200
    /\ last.user = Some(1)
    /\ last.data.created_by = Some(2)
    /\ db[last.kind][last.pk].created_by = Some(1)

\* C22: the slug of a story is derived from its title when the story is
\* created and no later request changes it, a change of the title included.
C22_Step ==
    LET l == last'
    IN  /\ (l.method = "POST" /\ l.kind = "story" /\ l.status = 201) =>
              db'["story"][l.pk].slug = Slugify(l.data.name)
        /\ \A p \in (DOMAIN db["story"]) \cap (DOMAIN db'["story"]) :
              db'["story"][p].slug = db["story"][p].slug

C22_SlugAssignedOnce == [][C22_Step]_vars

\* a title was changed to one with another slug and the slug stayed
C22_Witness ==
    /\ last.method \in {"PUT", "PATCH"}
    /\ last.kind = "story"
    /\ last.status = 200
    /\ db["story"][last.pk].title = last.data.name
    /\ db["story"][last.pk].slug # Slugify(last.data.name)

\* C23: no two stories hold the same slug, and a create whose title derives
\* a slug some story holds fails with the integrity error and adds no story,
\* also when the title of the story that holds it was changed since.
C23_Unique ==
    \A p, q \in DOMAIN db["story"] :
        db["story"][p].slug = db["story"][q].slug => p = q

C23_Step ==
    LET l == last'
    IN  (/\ l.method = "POST"
         /\ l.kind = "story"
         /\ IsAuthenticated(l.user)
         /\ l.data.name # << >>
         /\ \E p \in DOMAIN db["story"] : db["story"][p].slug = Slugify(l.data.name))
            => l.status = 500 /\ db' = db

C23_SlugsUnique == [](C23_Unique) /\ [][C23_Step]_vars

\* a create was refused for the slug of a story whose title has another slug now
C23_Witness ==
    /\ last.method = "POST"
    /\ last.kind = "story"
    /\ last.status = 500
    /\ \E p \in DOMAIN db["story"] :
          /\ db["story"][p].slug = Slugify(last.data.name)
          /\ Slugify(db["story"][p].title) # db["story"][p].slug

\* Location q is reached from location p by following parent at most n times.
RECURSIVE Reaches(_, _, _)
Reaches(p, q, n) ==
    /\ n > 0
    /\ LET up == db["location"][p].parent
       IN  /\ up # None
           /\ up[1] \in DOMAIN db["location"]
           /\ (up[1] = q \/ Reaches(up[1], q, n - 1))

\* C24: the parent relation of the locations is a tree in every reachable
\* state: no location is its own ancestor, whatever creates and updates
\* (updates that set parent included) came before.
C24_ParentIsATree ==
    \A p \in DOMAIN db["location"] : ~Reaches(p, p, MaxWorldRows)

\* C25: the deletion of a record that others refer to sets the references to
\* null and deletes nothing else: a location's children lose their parent,
\* the factions and characters at a location lose their location, the rows a
\* deleted user owned lose their owner.
C25_Step ==
    LET l == last'
    IN  /\ (l.method = "DELETE" /\ l.status = 204) =>
              \A k \in Kinds :
                  /\ DOMAIN db'[k] = (DOMAIN db[k]) \ (IF k = l.kind THEN {l.pk} ELSE {})
                  /\ \A p \in DOMAIN db'[k] :
                        db'[k][p] =
                            IF l.kind = "location" /\ k = "location"
                                   /\ db[k][p].parent = Some(l.pk)
                            THEN [db[k][p] EXCEPT !.parent = None]
                            ELSE IF l.kind = "location" /\ k \in {"faction", "character"}
                                   /\ db[k][p].location = Some(l.pk)
                            THEN [db[k][p] EXCEPT !.location = None]
                            ELSE db[k][p]
        /\ (users' # users) =>
              \A k \in Kinds :
                  /\ DOMAIN db'[k] = DOMAIN db[k]
                  /\ \A p \in DOMAIN db'[k] :
                        db'[k][p] =
                            IF db[k][p].created_by \in users \ users'
                            THEN [db[k][p] EXCEPT !.created_by = None]
                            ELSE db[k][p]

C25_DeletionSetsNull == [][C25_Step]_vars

\* a location was deleted and a location remains that has no owner (its owner
\* was deleted) and a reference to no location
C25_Witness ==
    /\ last.method = "DELETE"
    /\ last.kind = "location"
    /\ last.status = 204
    /\ \E p \in DOMAIN db["location"] :
          /\ db["location"][p].created_by = None
          /\ db["location"][p].parent = None

\* Row p of a kind has no owner.
Unowned(kind, p) == p \in DOMAIN db[kind] /\ db[kind][p].created_by = None

\* A step leaves every row without owner in its table, as it was.
UnownedStay ==
    \A k \in Kinds : \A p \in DOMAIN db[k] :
        Unowned(k, p) => p \in DOMAIN db'[k] /\ db'[k][p] = db[k][p]

\* An update or a delete of a row without owner by an authenticated caller
\* is answered 403; a read of it is answered 200.
UnownedStandardRoutes ==
    LET l == last'
    IN  /\ (/\ l.method \in {"PUT", "PATCH", "DELETE"}
            /\ IsAuthenticated(l.user)
            /\ Unowned(l.kind, l.pk))
               => l.status = 403
        /\ (l.method = "GET" /\ l.pk # 0 /\ Unowned(l.kind, l.pk)) => l.status = 200

\* The analyze request of slot r, by an authenticated caller on a story
\* without owner, is answered in this step.
UnownedAnalyzeAnswered(r) ==
    /\ req[r].pc # "done"
    /\ req'[r].pc = "done"
    /\ IsAuthenticated(req'[r].user)
    /\ Unowned("story", req'[r].pk)

\* C30 (as claimed): a row without owner is read-only through the API for
\* good: every update, delete or analyze request on it by an authenticated
\* caller is answered 403 and leaves it unchanged, and reads succeed.
C30_StepAsClaimed ==
    /\ UnownedStay
    /\ UnownedStandardRoutes
    /\ \A r \in Slots :
          UnownedAnalyzeAnswered(r) => req'[r].status = 403 /\ NoPipeline(r)'

C30_UnownedAlways403 == [][C30_StepAsClaimed]_vars

\* C30 (amended): a row without owner is read-only through the API for good:
\* every update or delete of it by an authenticated caller is answered 403,
\* every analyze request on it by an authenticated caller is answered 429
\* when the throttle refuses the request and 403 otherwise, without running
\* the pipeline; no step changes or removes the row, and reads are answered 200.
C30_Step ==
    /\ UnownedStay
    /\ UnownedStandardRoutes
    /\ \A r \in Slots :
          UnownedAnalyzeAnswered(r)
              => /\ req'[r].status = IF req'[r].throttled THEN 429 ELSE 403
                 /\ NoPipeline(r)'

C30_UnownedIsReadOnly == [][C30_Step]_vars

\* the owner of the story was deleted, and another user's analyze request on
\* it was answered 403 after their update of it was answered 403
C30_Witness ==
    /\ Unowned("story", 1)
    /\ last.method = "PATCH"
    /\ last.user = Some(2)
    /\ last.status = 403
    /\ \E r \in Slots :
          /\ req[r].pc = "done"
          /\ req[r].user = Some(2)
          /\ req[r].pk = 1
          /\ req[r].status = 403

====
